---- MODULE Spec2Model ----
(***************************************************************************)
(* umongo/abstract.py: BaseSchema, I18nErrorDict, BaseField, BaseValidator *)
(* and BaseDataObject, as state machines over one schema, one field, one   *)
(* validator and one data object.                                          *)
(*                                                                         *)
(* Python values are strings: None is "None", marshmallow's `missing`      *)
(* sentinel is "<missing>".  A message is a record [tpl, lang]: the        *)
(* template text and the language it is written in ("raw" = untranslated). *)
(***************************************************************************)
EXTENDS Naturals, Sequences, FiniteSets, TLC

VARIABLES
    catalog,    \* i18n: the active translation catalog (process-wide)
    schema,     \* BaseSchema instance: self.fields, in insertion order
    self,       \* BaseField instance the field operations act on
    validator,  \* BaseValidator instance
    m_field,    \* the last field returned by as_marshmallow_field
    doc,        \* BaseDataObject instance
    last,       \* history: doc's last lifecycle event / catalog the validator was built under
    calls,      \* call log of the last operation (callbacks and hooks invoked)
    out         \* outcome of the last operation

vars == <<catalog, schema, self, validator, m_field, doc, last, calls, out>>

----------------------------------------------------------------------------
(* Bounds *)

MaxFields == 2      \* fields per schema
MaxKeys == 2        \* keys per raw input mapping

----------------------------------------------------------------------------
(* Python helpers *)

None == "None"
missing == "<missing>"

\* Python truthiness of an attribute value (None and '' are falsy)
Truthy(x) == x # None /\ x # ""

Range(s) == {s[i] : i \in 1..Len(s)}

\* sequences over S without repetition, of length at most n
DistinctSeqs(S, n) ==
    UNION {{s \in [1..k -> S] : \A i, j \in 1..k : i # j => s[i] # s[j]} : k \in 0..n}

----------------------------------------------------------------------------
(* i18n *)

Catalogs == {"none", "fr", "de"}

\* the templates a catalog has a translation for
CatalogKeys(c) ==
    CASE c = "fr" -> {"Unknown field name {field}.", "Field value must be unique.",
                      "Values of fields {fields} must be unique together.",
                      "Must be positive.", "Too long."}
      [] c = "de" -> {"Unknown field name {field}.", "Field value must be unique.",
                      "Must be positive."}
      [] OTHER -> {}

Raw(tpl) == [tpl |-> tpl, lang |-> "raw"]

\* lookup of a message in catalog c: a message the catalog does not know
\* (an already translated one included) is returned unchanged
Translate(c, msg) ==
    IF msg.lang = "raw" /\ msg.tpl \in CatalogKeys(c)
    THEN [tpl |-> msg.tpl, lang |-> c]
    ELSE msg

gettext(msg) == Translate(catalog, msg)

----------------------------------------------------------------------------
(* Class hierarchy: the types a field can have.  mro(c) is type(c).mro()   *)
(* as Python's C3 linearisation gives it for the class statements           *)
(*   class BaseField(ma_fields.Field)                                       *)
(*   class StrField(BaseField, ma_fields.String)                            *)
(*   class ListField(BaseField, ma_fields.List)                             *)
(*   class ObjectIdField(BaseField, ma_bonus.ObjectId)                      *)
(*   class MyStrField(Mixin, StrField)                                      *)

FieldClasses == {"BaseField", "StrField", "ListField", "ObjectIdField", "MyStrField"}

mro(c) ==
    CASE c = "BaseField" -> <<"BaseField", "ma.Field", "ma.FieldABC", "object">>
      [] c = "StrField" -> <<"StrField", "BaseField", "ma.String", "ma.Field",
                             "ma.FieldABC", "object">>
      [] c = "ListField" -> <<"ListField", "BaseField", "ma.List", "ma.Field",
                              "ma.FieldABC", "object">>
      [] c = "ObjectIdField" -> <<"ObjectIdField", "BaseField", "ma_bonus.ObjectId",
                                  "ma.Field", "ma.FieldABC", "object">>
      [] c = "MyStrField" -> <<"MyStrField", "Mixin", "StrField", "BaseField",
                               "ma.String", "ma.Field", "ma.FieldABC", "object">>

\* issubclass(m_class, BaseField)
IsBaseFieldSubclass(m_class) == m_class \in FieldClasses

\* issubclass(m_class, ma_fields.Field)
IsMaFieldSubclass(m_class) ==
    m_class \in FieldClasses \cup {"ma.Field", "ma.String", "ma.List", "ma_bonus.ObjectId"}

----------------------------------------------------------------------------
(* BaseField *)

\* a dict whose __getitem__ translates: the stored items stay as given
I18nErrorDict(items) == [i18n |-> TRUE, items |-> items]

PlainDict(items) == [i18n |-> FALSE, items |-> items]

\* I18nErrorDict.__getitem__ (dict.__getitem__ for a plain dict)
ErrorDictGetItem(d, name) ==
    LET raw_msg == d.items[name]
    IN  IF d.i18n THEN gettext(raw_msg) ELSE raw_msg

\* BaseField.default_error_messages on top of marshmallow's own
default_error_messages ==
    [required |-> Raw("Missing data for required field."),
     unique |-> Raw("Field value must be unique."),
     unique_compound |-> Raw("Values of fields {fields} must be unique together.")]

\* dict.update(other): the stored items of other, whatever its __getitem__ does
DictUpdate(items, other) ==
    [k \in DOMAIN items \cup DOMAIN other |->
        IF k \in DOMAIN other THEN other[k] ELSE items[k]]

\* marshmallow's Field.__init__ collects the class's default messages and
\* updates them with the error_messages argument
CollectMessages(defaults, error_messages) == DictUpdate(defaults, error_messages.items)

\* BaseField.__init__
BaseFieldInit(cls, attribute, required, allow_none, unique, dump_only, custom) ==
    [cls |-> cls,
     attribute |-> attribute,
     load_from |-> IF cls = "MyStrField" THEN "alias" ELSE None,
     default |-> IF cls = "ListField" THEN "v1" ELSE None,
     missing |-> IF cls = "StrField" THEN "v2" ELSE missing,
     validate |-> IF cls \in {"StrField", "MyStrField"} THEN <<"Length">> ELSE <<>>,
     required |-> required,
     allow_none |-> allow_none,
     load_only |-> cls = "MyStrField",
     dump_only |-> dump_only,
     error_messages |->
         I18nErrorDict(CollectMessages(default_error_messages, PlainDict(custom))),
     io_validate |-> None,
     unique |-> unique,
     instance |-> None]

NoCustom == <<>>

Fields ==
    {BaseFieldInit(cls, attribute, required, allow_none, unique, dump_only, NoCustom) :
        cls \in FieldClasses, attribute \in {None, "a"}, required \in BOOLEAN,
        allow_none \in BOOLEAN, unique \in BOOLEAN, dump_only \in BOOLEAN}

\* object-world values and their wire representation
Values == {missing, None, "v1", "v2"}

ToWire(v) ==
    CASE v = "v1" -> "w1"
      [] v = "v2" -> "w2"
      [] v = None -> "wNone"
      [] v = missing -> "w<missing>"
      [] OTHER -> v

FromWire(w) ==
    CASE w = "w1" -> "v1"
      [] w = "w2" -> "v2"
      [] w = "wNone" -> None
      [] w = "w<missing>" -> missing
      [] OTHER -> w

WireValues == {ToWire(v) : v \in Values}

\* the field variants that override the conversion hooks
Converting(f) == f.cls = "ObjectIdField"

\* BaseField._serialize_to_mongo, as overridden by the converting variants
_serialize_to_mongo(f, obj) == IF Converting(f) THEN ToWire(obj) ELSE obj

\* BaseField._deserialize_from_mongo, as overridden by the converting variants
_deserialize_from_mongo(f, value) == IF Converting(f) THEN FromWire(value) ELSE value

Call(fn, arg) == [fn |-> fn, arg |-> arg]

\* BaseField.serialize_to_mongo without the guard for the sentinel
serialize_to_mongo_unguarded(f, obj) ==
    [ret |-> _serialize_to_mongo(f, obj),
     calls |-> <<Call("_serialize_to_mongo", obj)>>]

\* BaseField.serialize_to_mongo: the value returned and the hooks called
serialize_to_mongo(f, obj) ==
    IF obj = missing
    THEN [ret |-> missing, calls |-> <<>>]
    ELSE [ret |-> _serialize_to_mongo(f, obj),
          calls |-> <<Call("_serialize_to_mongo", obj)>>]

\* BaseField.deserialize_from_mongo
deserialize_from_mongo(f, value) ==
    [ret |-> _deserialize_from_mongo(f, value),
     calls |-> <<Call("_deserialize_from_mongo", value)>>]

\* BaseField.translate_query
translate_query(f, key, query) ==
    [key |-> IF Truthy(f.attribute) THEN f.attribute ELSE key, query |-> query]

\* the flags a field has enabled, among those the index table reads
EnabledFlags(f) ==
    {n \in {"required", "allow_none", "unique"} :
        \/ n = "required" /\ f.required
        \/ n = "allow_none" /\ f.allow_none
        \/ n = "unique" /\ f.unique}

\* the index table with the row of the spec's table for `unique` alone
IndexKindPlainUnique(f) ==
    IF ~f.unique THEN "" ELSE
    IF ~f.required /\ f.allow_none THEN "unique, sparse" ELSE "unique"

\* the table of BaseField's docstring: enabled flags | resulting index
IndexKind(f) ==
    LET flags == EnabledFlags(f)
    IN  CASE flags = {} -> ""
          [] flags = {"allow_none"} -> ""
          [] flags = {"required"} -> ""
          [] flags = {"required", "allow_none"} -> ""
          [] flags = {"required", "unique", "allow_none"} -> "unique"
          [] flags = {"unique"} -> "unique, sparse"
          [] flags = {"unique", "required"} -> "unique"
          [] flags = {"unique", "allow_none"} -> "unique, sparse"

\* a dict without entries; params=None takes the same branches as params={}
\* (`if params:` and `params or {}`)
NoParams == <<>>

\* kwargs.update(params) the wrong way round: the collected values win
KwargsUpdateKeep(kwargs, params) ==
    [k \in DOMAIN kwargs \cup DOMAIN params |->
        IF k \in DOMAIN kwargs THEN kwargs[k] ELSE params[k]]

\* kwargs.update(params)
KwargsUpdate(kwargs, params) ==
    [k \in DOMAIN kwargs \cup DOMAIN params |->
        IF k \in DOMAIN params THEN params[k] ELSE kwargs[k]]

\* BaseField._extract_marshmallow_field_params
_extract_marshmallow_field_params(f, mongo_world) ==
    LET params == [default |-> f.default, load_from |-> f.load_from,
                   validate |-> f.validate, required |-> f.required,
                   allow_none |-> f.allow_none, load_only |-> f.load_only,
                   dump_only |-> f.dump_only, missing |-> f.missing,
                   error_messages |-> f.error_messages]
    IN  IF mongo_world /\ Truthy(f.attribute)
        THEN KwargsUpdate(params, [attribute |-> f.attribute])
        ELSE params

\* marshmallow's own default_error_messages, of every ma field class
ma_default_error_messages == [required |-> Raw("Missing data for required field.")]

\* m_class(**kwargs): the marshmallow field built from the keyword arguments
MaFieldInit(m_class, kwargs) ==
    [cls |-> m_class,
     kwargs |-> kwargs,
     error_messages |->
         PlainDict(CollectMessages(ma_default_error_messages, kwargs.error_messages))]

\* position in classes, from i on, of the first class that is a marshmallow
\* field and not a BaseField; 0 when the loop ends without one
RECURSIVE FirstMaClass(_, _)
FirstMaClass(classes, i) ==
    IF i > Len(classes) THEN 0
    ELSE IF ~IsBaseFieldSubclass(classes[i]) /\ IsMaFieldSubclass(classes[i]) THEN i
    ELSE FirstMaClass(classes, i + 1)

ReturnsNone == [ret |-> "None"]

\* BaseField.as_marshmallow_field
as_marshmallow_field(f, params, mongo_world) ==
    LET collected == _extract_marshmallow_field_params(f, mongo_world)
        kwargs == IF DOMAIN params # {} THEN KwargsUpdate(collected, params)
                  ELSE collected
        classes == mro(f.cls)
        i == FirstMaClass(classes, 1)
    IN  IF i = 0 THEN ReturnsNone
        ELSE LET built == MaFieldInit(classes[i], kwargs)
             IN  [ret |-> "field",
                  cls |-> built.cls,
                  kwargs |-> built.kwargs,
                  error_messages |-> I18nErrorDict(built.error_messages.items)]

----------------------------------------------------------------------------
(* Field operations on one field instance *)

NoOut == [op |-> "none"]
NoValidator == [cls |-> "none"]
NoDoc == [cls |-> "none"]
NoField == BaseFieldInit("BaseField", None, FALSE, FALSE, FALSE, FALSE, NoCustom)

\* the overrides a caller passes to as_marshmallow_field
FieldOverrides ==
    <<NoParams,
      [required |-> TRUE],
      [required |-> FALSE, missing |-> "v1"],
      [attribute |-> "x"],
      [load_from |-> "other", allow_none |-> TRUE],
      [error_messages |-> PlainDict([required |-> Raw("Too long.")])]>>

InitField ==
    /\ catalog = "none"
    /\ schema = <<>>
    /\ self \in Fields
    /\ validator = NoValidator
    /\ m_field = ReturnsNone
    /\ doc = NoDoc
    /\ last = "none"
    /\ calls = <<>>
    /\ out = NoOut

SerializeToMongo ==
    \E obj \in Values :
        LET r == serialize_to_mongo(self, obj)
        IN  /\ out' = [op |-> "serialize_to_mongo", arg |-> obj, ret |-> r.ret]
            /\ calls' = r.calls
            /\ UNCHANGED <<catalog, schema, self, validator, m_field, doc, last>>

DeserializeFromMongo ==
    \E value \in Values \cup WireValues :
        LET r == deserialize_from_mongo(self, value)
        IN  /\ out' = [op |-> "deserialize_from_mongo", arg |-> value, ret |-> r.ret]
            /\ calls' = r.calls
            /\ UNCHANGED <<catalog, schema, self, validator, m_field, doc, last>>

TranslateQuery ==
    \E key \in {"name", "age"} :
        /\ out' = [op |-> "translate_query", arg |-> key,
                   ret |-> translate_query(self, key, "q")]
        /\ calls' = <<>>
        /\ UNCHANGED <<catalog, schema, self, validator, m_field, doc, last>>

AsMarshmallowField ==
    \E i \in 1..Len(FieldOverrides), mongo_world \in BOOLEAN :
        /\ m_field' = as_marshmallow_field(self, FieldOverrides[i], mongo_world)
        /\ out' = [op |-> "as_marshmallow_field", params |-> FieldOverrides[i],
                   mongo_world |-> mongo_world]
        /\ calls' = <<>>
        /\ UNCHANGED <<catalog, schema, self, validator, doc, last>>

\* reading the index the field documents for its flags
DocumentedIndex ==
    /\ out' = [op |-> "index", ret |-> IndexKind(self)]
    /\ calls' = <<>>
    /\ UNCHANGED <<catalog, schema, self, validator, m_field, doc, last>>

NextField ==
    \/ SerializeToMongo
    \/ DeserializeFromMongo
    \/ TranslateQuery
    \/ AsMarshmallowField
    \/ DocumentedIndex

SpecField == InitField /\ [][NextField]_vars

----------------------------------------------------------------------------
(* Claims on the field operations *)

\* C3: serialize_to_mongo returns the absent sentinel for the absent sentinel
\* without calling the conversion hook, returns the hook's result on every
\* other value (None included, which is passed to the hook), and
\* deserialize_from_mongo of the sentinel is the sentinel for the base field.
C3_AbsencePreserved ==
    /\ out.op = "serialize_to_mongo" =>
        /\ out.arg = missing => out.ret = missing /\ calls = <<>>
        /\ out.arg # missing =>
            /\ calls = <<Call("_serialize_to_mongo", out.arg)>>
            /\ out.ret = IF Converting(self) THEN ToWire(out.arg) ELSE out.arg
    /\ (out.op = "deserialize_from_mongo" /\ self.cls = "BaseField" /\ out.arg = missing)
        => out.ret = missing

\* the sentinel went through serialize_to_mongo of a converting field variant
C3_Witness ==
    /\ out.op = "serialize_to_mongo"
    /\ out.arg = missing
    /\ Converting(self)
    /\ out.ret = missing

\* C4 as stated: the documented index kind is the one of the spec's table,
\* where `unique` alone (not required, no allow_none) gives a plain unique index.
C4_SpecTable ==
    out.op = "index" =>
        out.ret = IF ~self.unique THEN ""
                  ELSE IF ~self.required /\ self.allow_none THEN "unique, sparse"
                  ELSE "unique"

\* C4 amended: no index when unique is off; "unique, sparse" exactly when
\* unique is on and required is off (with or without allow_none); plain
\* "unique" when unique and required are both on.
C4_DocumentedTable ==
    out.op = "index" =>
        out.ret = IF ~self.unique THEN ""
                  ELSE IF ~self.required THEN "unique, sparse"
                  ELSE "unique"

\* the index of a field with unique as its only flag was read
C4_Witness ==
    /\ out.op = "index"
    /\ self.unique /\ ~self.required /\ ~self.allow_none
    /\ out.ret = "unique, sparse"

CollectedNames ==
    {"default", "load_from", "validate", "required", "allow_none", "load_only",
     "dump_only", "missing", "error_messages"}

\* C8: as_marshmallow_field returns a field of the first class of the
\* resolution order that is a marshmallow field and no BaseField, built from
\* the nine collected attributes, plus the storage attribute only when
\* mongo_world is set and the field has one, with every override replacing
\* the collected value; the search always finds a class.
C8_FieldProjection ==
    out.op = "as_marshmallow_field" =>
        LET classes == mro(self.cls)
            p == out.params
            kw == m_field.kwargs
        IN  /\ m_field.ret = "field"
            /\ \E i \in 1..Len(classes) :
                /\ classes[i] = m_field.cls
                /\ IsMaFieldSubclass(classes[i]) /\ ~IsBaseFieldSubclass(classes[i])
                /\ \A j \in 1..(i - 1) :
                    ~IsMaFieldSubclass(classes[j]) \/ IsBaseFieldSubclass(classes[j])
            /\ \A k \in DOMAIN p : kw[k] = p[k]
            /\ \A k \in CollectedNames \ DOMAIN p : kw[k] = self[k]
            /\ "attribute" \notin DOMAIN p =>
                /\ "attribute" \in DOMAIN kw <=> (out.mongo_world /\ Truthy(self.attribute))
                /\ "attribute" \in DOMAIN kw => kw.attribute = self.attribute
            /\ DOMAIN kw \subseteq CollectedNames \cup {"attribute"} \cup DOMAIN p

\* a field with a mixin in its resolution order and a storage attribute was
\* projected for the mongo world with an override that changes a value
C8_Witness ==
    /\ out.op = "as_marshmallow_field"
    /\ self.cls = "MyStrField"
    /\ out.mongo_world /\ Truthy(self.attribute)
    /\ "required" \in DOMAIN out.params
    /\ out.params.required # self.required
    /\ m_field.ret = "field"
    /\ m_field.cls = "ma.String"
    /\ m_field.kwargs.attribute = self.attribute

----------------------------------------------------------------------------
(* BaseSchema *)

\* the fields a schema is declared from: declared name and field instance
FieldPool ==
    <<[name |-> "name", field |->
          BaseFieldInit("StrField", None, FALSE, FALSE, FALSE, FALSE, NoCustom)],
      [name |-> "age", field |->
          BaseFieldInit("BaseField", "a", FALSE, TRUE, FALSE, FALSE, NoCustom)],
      [name |-> "id", field |->
          BaseFieldInit("ObjectIdField", "_id", FALSE, FALSE, TRUE, TRUE, NoCustom)],
      [name |-> "tags", field |->
          BaseFieldInit("ListField", None, FALSE, FALSE, FALSE, FALSE, NoCustom)],
      [name |-> "addr", field |->
          BaseFieldInit("ListField", "ad", TRUE, FALSE, FALSE, FALSE, NoCustom)]>>

\* self.fields of the schemas: the declared fields in insertion order
Schemas ==
    {[i \in 1..Len(s) |-> FieldPool[s[i]]] : s \in DistinctSeqs(1..Len(FieldPool), MaxFields)}

\* the keys of a raw input mapping, in the mapping's iteration order
Keys == {"name", "age", "id", "a", "ghost"}
RawInputs == DistinctSeqs(Keys, MaxKeys)

\* every field name, dump_only fields included
all_fields(fields) == {fields[i].name : i \in 1..Len(fields)}

\* loadable_fields = [k for k, v in self.fields.items() if not v.dump_only]
loadable_fields(fields) ==
    {fields[i].name : i \in {j \in 1..Len(fields) : ~fields[j].field.dump_only}}

\* position of the last key of original_data that is not loadable, 0 if none
RECURSIVE LastUnknown(_, _, _)
LastUnknown(original_data, loadable, i) ==
    IF i > Len(original_data) THEN 0
    ELSE LET later == LastUnknown(original_data, loadable, i + 1)
         IN  IF later # 0 THEN later
             ELSE IF original_data[i] \notin loadable THEN i ELSE 0

\* the loop over original_data: position, from i on, of the first key that is
\* not loadable, 0 if the loop ends
RECURSIVE FirstUnknown(_, _, _)
FirstUnknown(original_data, loadable, i) ==
    IF i > Len(original_data) THEN 0
    ELSE IF original_data[i] \notin loadable THEN i
    ELSE FirstUnknown(original_data, loadable, i + 1)

Returns == [kind |-> "ok"]

\* raise ValidationError(_('Unknown field name {field}.').format(field=key))
RaiseUnknown(key) ==
    [kind |-> "raise", exc |-> "ValidationError",
     msg |-> gettext(Raw("Unknown field name {field}.")), field |-> key]

\* _check_unknown_fields(self, data, original_data)
_check_unknown_fields(fields, original_data) ==
    LET i == FirstUnknown(original_data, loadable_fields(fields), 1)
    IN  IF i = 0 THEN Returns ELSE RaiseUnknown(original_data[i])

\* __check_unknown_fields = validates_schema(pass_original=True)(...): the
\* errors the hook adds to a load's error set, one per ValidationError raised
SchemaHookErrors(outcome) ==
    IF outcome.kind = "raise"
    THEN <<[msg |-> outcome.msg, field |-> outcome.field]>>
    ELSE <<>>

\* hasattr(field, 'map_to_field'): the composite field variants
HasMapToField(f) == f.cls = "ListField"

Visit(fn, mongo_path, name, field) ==
    [fn |-> fn, mongo_path |-> mongo_path, name |-> name, field |-> field]

\* the traversal with the declared name as storage path
RECURSIVE map_by_name(_, _)
map_by_name(fields, i) ==
    IF i > Len(fields) THEN <<>>
    ELSE LET name == fields[i].name
             field == fields[i].field
         IN  <<Visit("func", name, name, field)>>
             \o (IF HasMapToField(field)
                 THEN <<Visit("field.map_to_field", name, name, field)>> ELSE <<>>)
             \o map_by_name(fields, i + 1)

\* BaseSchema.map_to_field: the calls made, in order, from field i on
RECURSIVE map_to_field(_, _)
map_to_field(fields, i) ==
    IF i > Len(fields) THEN <<>>
    ELSE LET name == fields[i].name
             field == fields[i].field
             mongo_path == IF Truthy(field.attribute) THEN field.attribute ELSE name
         IN  <<Visit("func", mongo_path, name, field)>>
             \o (IF HasMapToField(field)
                 THEN <<Visit("field.map_to_field", mongo_path, name, field)>>
                 ELSE <<>>)
             \o map_to_field(fields, i + 1)

\* params.get(name)
ParamsGet(params, name) == IF name \in DOMAIN params THEN params[name] ELSE NoParams

CheckHook ==
    [kind |-> "validates_schema", pass_original |-> TRUE, fn |-> "_check_unknown_fields"]

\* the projection that does not hand mongo_world on to the fields
as_marshmallow_schema_oo(fields, params, base_schema_cls, check_unknown_fields, mongo_world) ==
    LET names == {fields[i].name : i \in 1..Len(fields)}
        at(n) == CHOOSE i \in 1..Len(fields) : fields[i].name = n
    IN  [name |-> <<"Marshmallow", "Schema">>,
         bases |-> <<base_schema_cls>>,
         nmspc |-> [k \in names \cup (IF check_unknown_fields
                                      THEN {"__check_unknown_fields"} ELSE {}) |->
             IF k \in names
             THEN [kind |-> "field",
                   value |-> as_marshmallow_field(fields[at(k)].field,
                                                  ParamsGet(params, k), FALSE)]
             ELSE CheckHook]]

\* BaseSchema.as_marshmallow_schema: the type returned
as_marshmallow_schema(fields, params, base_schema_cls, check_unknown_fields, mongo_world) ==
    LET names == {fields[i].name : i \in 1..Len(fields)}
        at(n) == CHOOSE i \in 1..Len(fields) : fields[i].name = n
    IN  [name |-> <<"Marshmallow", "Schema">>,
         bases |-> <<base_schema_cls>>,
         nmspc |-> [k \in names \cup (IF check_unknown_fields
                                      THEN {"__check_unknown_fields"} ELSE {}) |->
             IF k \in names
             THEN [kind |-> "field",
                   value |-> as_marshmallow_field(fields[at(k)].field,
                                                  ParamsGet(params, k), mongo_world)]
             ELSE CheckHook]]

\* the per-field overrides a caller passes to as_marshmallow_schema
SchemaParams ==
    <<NoParams,
      [name |-> [required |-> TRUE]],
      [age |-> [attribute |-> "x"], a |-> [required |-> TRUE]],
      [id |-> [dump_only |-> FALSE], addr |-> [missing |-> "v1"],
       ad |-> [missing |-> "v2"], ghost |-> [required |-> TRUE]]>>

BaseSchemaClasses == {"MaSchema", "StrictSchema"}

InitSchema ==
    /\ catalog \in Catalogs
    /\ schema \in Schemas
    /\ self = NoField
    /\ validator = NoValidator
    /\ m_field = ReturnsNone
    /\ doc = NoDoc
    /\ last = "none"
    /\ calls = <<>>
    /\ out = NoOut

\* the unknown-key check as load runs it on a raw input mapping
CheckUnknownFields ==
    \E original_data \in RawInputs :
        LET outcome == _check_unknown_fields(schema, original_data)
        IN  /\ out' = [op |-> "_check_unknown_fields", data |-> original_data,
                       outcome |-> outcome, errors |-> SchemaHookErrors(outcome)]
            /\ calls' = <<>>
            /\ UNCHANGED <<catalog, schema, self, validator, m_field, doc, last>>

MapToField ==
    /\ out' = [op |-> "map_to_field"]
    /\ calls' = map_to_field(schema, 1)
    /\ UNCHANGED <<catalog, schema, self, validator, m_field, doc, last>>

AsMarshmallowSchema ==
    \E i \in 1..Len(SchemaParams), base_schema_cls \in BaseSchemaClasses,
       check_unknown_fields \in BOOLEAN, mongo_world \in BOOLEAN :
        /\ out' = [op |-> "as_marshmallow_schema", params |-> SchemaParams[i],
                   base_schema_cls |-> base_schema_cls,
                   check_unknown_fields |-> check_unknown_fields,
                   mongo_world |-> mongo_world,
                   ret |-> as_marshmallow_schema(schema, SchemaParams[i], base_schema_cls,
                                                 check_unknown_fields, mongo_world)]
        /\ calls' = <<>>
        /\ UNCHANGED <<catalog, schema, self, validator, m_field, doc, last>>

NextSchema ==
    \/ CheckUnknownFields
    \/ MapToField
    \/ AsMarshmallowSchema

SpecSchema == InitSchema /\ [][NextSchema]_vars

----------------------------------------------------------------------------
(* Claims on the schema operations *)

\* the keys of the last checked input that are no declared name of a field
\* with dump_only off
UnknownKeys ==
    {k \in Range(out.data) :
        ~\E i \in 1..Len(schema) : schema[i].name = k /\ ~schema[i].field.dump_only}

\* C1: when the input has a key that is not the declared name of a field with
\* dump_only off, the unknown-key check raises a ValidationError whose message
\* is the 'Unknown field name' message citing such a key; when every key is
\* the declared name of such a field it raises nothing.
C1_UnknownKeyRejected ==
    out.op = "_check_unknown_fields" =>
        /\ UnknownKeys # {} =>
            /\ out.outcome.kind = "raise"
            /\ out.outcome.exc = "ValidationError"
            /\ out.outcome.msg.tpl = "Unknown field name {field}."
            /\ out.outcome.field \in UnknownKeys
        /\ UnknownKeys = {} => out.outcome.kind = "ok"

\* the only key of the input names a dump_only field of the schema, and the
\* check raised citing it
C1_Witness ==
    /\ out.op = "_check_unknown_fields"
    /\ out.data = <<"id">>
    /\ \E i \in 1..Len(schema) : schema[i].name = "id" /\ schema[i].field.dump_only
    /\ out.outcome.kind = "raise"
    /\ out.outcome.field = "id"

\* C2 as stated: every unrecognized key of the input has its own error citing it.
C2_ErrorPerKey ==
    out.op = "_check_unknown_fields" =>
        \A k \in UnknownKeys :
            \E i \in 1..Len(out.errors) :
                /\ out.errors[i].field = k
                /\ out.errors[i].msg.tpl = "Unknown field name {field}."

\* C2 amended: when the input has unrecognized keys, the check contributes
\* exactly one 'Unknown field name' error, citing the first unrecognized key
\* in the mapping's iteration order (with no unrecognized key, none).
C2_FirstKeyOnly ==
    out.op = "_check_unknown_fields" =>
        /\ UnknownKeys = {} => out.errors = <<>>
        /\ UnknownKeys # {} =>
            /\ Len(out.errors) = 1
            /\ out.errors[1].msg.tpl = "Unknown field name {field}."
            /\ \E i \in 1..Len(out.data) :
                /\ out.data[i] = out.errors[1].field
                /\ out.data[i] \in UnknownKeys
                /\ \A j \in 1..(i - 1) : out.data[j] \notin UnknownKeys

\* an input with two unrecognized keys was checked
C2_Witness ==
    /\ out.op = "_check_unknown_fields"
    /\ Cardinality(UnknownKeys) >= 2
    /\ Len(out.errors) = 1

NameSet == {schema[i].name : i \in 1..Len(schema)}

\* C9 (the returned type): it derives from the base given, declares exactly
\* the schema's field names, each as the projection of that field under the
\* overrides stored under the field's own name and the same mongo_world, and
\* carries the unknown-key check exactly when check_unknown_fields is set.
C9_ProjectedType ==
    out.op = "as_marshmallow_schema" =>
        LET nmspc == out.ret.nmspc
            declared == {k \in DOMAIN nmspc : nmspc[k].kind = "field"}
        IN  /\ out.ret.bases = <<out.base_schema_cls>>
            /\ declared = NameSet
            /\ \A i \in 1..Len(schema) :
                LET name == schema[i].name
                    overrides == IF name \in DOMAIN out.params
                                 THEN out.params[name] ELSE NoParams
                IN  nmspc[name].value =
                        as_marshmallow_field(schema[i].field, overrides, out.mongo_world)
            /\ "__check_unknown_fields" \in DOMAIN nmspc <=> out.check_unknown_fields
            /\ DOMAIN nmspc \ declared \subseteq {"__check_unknown_fields"}

\* C9: the returned type is as C9_ProjectedType says, and the source schema's
\* fields are left unchanged by every step.
C9_SchemaProjection == []C9_ProjectedType /\ [][schema' = schema]_vars

\* a schema whose field has a storage attribute was projected for the mongo
\* world without the check, with overrides stored under another field's
\* attribute and none under the field's own name
C9_Witness ==
    /\ out.op = "as_marshmallow_schema"
    /\ out.mongo_world /\ ~out.check_unknown_fields
    /\ "a" \in DOMAIN out.params
    /\ \E i \in 1..Len(schema) :
        /\ schema[i].name = "addr"
        /\ "addr" \notin DOMAIN out.params
        /\ out.ret.nmspc["addr"].value.kwargs.attribute = "ad"
    /\ "__check_unknown_fields" \notin DOMAIN out.ret.nmspc

\* number of composite fields among the first n fields of the schema
RECURSIVE NestedBefore(_)
NestedBefore(n) ==
    IF n = 0 THEN 0
    ELSE NestedBefore(n - 1) + (IF HasMapToField(schema[n].field) THEN 1 ELSE 0)

\* C10: map_to_field calls the callback once per field, in insertion order,
\* with (the storage attribute if set, else the declared name; the declared
\* name; the field); a field with a nested traversal is descended into with
\* the same path and name right after its own callback and before the next
\* sibling's; other fields are not descended into.
C10_TraversalOrder ==
    out.op = "map_to_field" =>
        /\ Len(calls) = Len(schema) + NestedBefore(Len(schema))
        /\ \A i \in 1..Len(schema) :
            LET at == i + NestedBefore(i - 1)
                f == schema[i].field
                path == IF f.attribute \in {None, ""} THEN schema[i].name ELSE f.attribute
            IN  /\ calls[at] = Visit("func", path, schema[i].name, f)
                /\ HasMapToField(f) =>
                    calls[at + 1] = Visit("field.map_to_field", path, schema[i].name, f)
        /\ \A k \in 1..Len(calls) :
            calls[k].fn = "field.map_to_field" => HasMapToField(calls[k].field)

\* a composite field with a storage attribute was visited before a sibling
C10_Witness ==
    /\ out.op = "map_to_field"
    /\ Len(schema) = 2
    /\ schema[1].name = "addr"
    /\ Len(calls) = 3
    /\ calls[2].fn = "field.map_to_field" /\ calls[2].mongo_path = "ad"
    /\ calls[3].fn = "func" /\ calls[3].name = schema[2].name

----------------------------------------------------------------------------
(* BaseValidator *)

\* the validator types: class Range(BaseValidator, ma_validate.Range) and
\* class Length(BaseValidator, ma_validate.Length); Tagged is a validator
\* whose instances also carry the ten attributes a field has
ValidatorClasses == {"Range", "Length", "Tagged"}

validator_mro(c) ==
    CASE c = "Range" -> <<"Range", "BaseValidator", "ma_validate.Range",
                          "ma_validate.Validator", "object">>
      [] c = "Length" -> <<"Length", "BaseValidator", "ma_validate.Length",
                           "ma_validate.Validator", "object">>
      [] c = "Tagged" -> <<"Tagged", "BaseValidator", "ma_validate.Validator", "object">>

\* the attributes getattr finds on an instance
ValidatorAttributes(c) ==
    CASE c = "Range" -> {"min", "max", "error", "_error"}
      [] c = "Length" -> {"min", "max", "equal", "error", "_error"}
      [] c = "Tagged" -> {"error", "_error", "default", "attribute", "load_from",
                          "validate", "required", "allow_none", "load_only",
                          "dump_only", "missing", "error_messages"}

\* the setter that translates the message when it is stored
error_setter_eager(v, value) == [v EXCEPT !._error = gettext(value)]

\* BaseValidator.error (setter)
error_setter(v, value) == [v EXCEPT !._error = value]

\* BaseValidator.error (getter)
error_getter(v) == gettext(v._error)

\* BaseValidator.__init__, followed by the marshmallow validator's own
\* __init__, which assigns self.error
BaseValidatorInit(cls, error) ==
    error_setter([cls |-> cls, _error |-> Raw(None)], error)

\* the names as_marshmallow_validator reads from the validator
ValidatorParamNames ==
    <<"default", "attribute", "load_from", "validate", "required", "allow_none",
      "load_only", "dump_only", "missing", "error_messages">>

\* position of the first name, from i on, that is no attribute of the instance
RECURSIVE FirstMissingAttr(_, _, _)
FirstMissingAttr(names, attrs, i) ==
    IF i > Len(names) THEN 0
    ELSE IF names[i] \notin attrs THEN i
    ELSE FirstMissingAttr(names, attrs, i + 1)

\* BaseValidator.as_marshmallow_validator: what the call ends with
as_marshmallow_validator(v, params, mongo_world) ==
    LET missing_at == FirstMissingAttr(ValidatorParamNames, ValidatorAttributes(v.cls), 1)
        classes == validator_mro(v.cls)
        i == FirstMaClass(classes, 1)
    IN  IF missing_at # 0
        THEN [kind |-> "raise", exc |-> "AttributeError",
              name |-> ValidatorParamNames[missing_at]]
        ELSE IF i = 0 THEN [kind |-> "return", ret |-> "None"]
        ELSE [kind |-> "return", ret |-> "validator", cls |-> classes[i]]

----------------------------------------------------------------------------
(* Messages under a catalog that is swapped *)

Templates == {"Must be positive.", "Too long."}

\* the error_messages argument a field is constructed with
CustomMessages ==
    <<NoCustom,
      [required |-> Raw("Too long.")],
      [unique |-> Raw("Must be positive."), invalid |-> Raw("Too long.")]>>

ValidatorOverrides == <<NoParams, [max |-> "v2"]>>

InitI18n ==
    /\ catalog = "none"
    /\ schema = <<>>
    /\ self = NoField
    /\ validator = NoValidator
    /\ m_field = ReturnsNone
    /\ doc = NoDoc
    /\ last = "never"
    /\ calls = <<>>
    /\ out = NoOut

\* i18n.set_gettext: swap the active catalog
SetGettext ==
    \E c \in Catalogs :
        /\ c # catalog
        /\ catalog' = c
        /\ UNCHANGED <<schema, self, validator, m_field, doc, last, calls, out>>

NewValidator ==
    \E cls \in ValidatorClasses, error \in Templates :
        /\ validator' = BaseValidatorInit(cls, Raw(error))
        /\ last' = catalog
        /\ UNCHANGED <<catalog, schema, self, m_field, doc, calls, out>>

NewField ==
    \E i \in 1..Len(CustomMessages) :
        /\ self' = BaseFieldInit("StrField", "a", FALSE, FALSE, FALSE, FALSE,
                                 CustomMessages[i])
        /\ UNCHANGED <<catalog, schema, validator, m_field, doc, last, calls, out>>

ProjectField ==
    \E mongo_world \in BOOLEAN :
        /\ m_field' = as_marshmallow_field(self, NoParams, mongo_world)
        /\ UNCHANGED <<catalog, schema, self, validator, doc, last, calls, out>>

Read(src, key, stored, value) ==
    [op |-> "read", src |-> src, key |-> key, stored |-> stored, value |-> value,
     built |-> IF src = "validator" THEN last ELSE "-", cat |-> catalog]

ReadValidatorError ==
    /\ validator # NoValidator
    /\ out' = Read("validator", "error", validator._error, error_getter(validator))
    /\ UNCHANGED <<catalog, schema, self, validator, m_field, doc, last, calls>>

ReadFieldError ==
    \E key \in DOMAIN self.error_messages.items :
        /\ out' = Read("self", key, self.error_messages.items[key],
                       ErrorDictGetItem(self.error_messages, key))
        /\ UNCHANGED <<catalog, schema, self, validator, m_field, doc, last, calls>>

ReadProjectedError ==
    /\ m_field.ret = "field"
    /\ \E key \in DOMAIN m_field.error_messages.items :
        out' = Read("m_field", key, m_field.error_messages.items[key],
                     ErrorDictGetItem(m_field.error_messages, key))
    /\ UNCHANGED <<catalog, schema, self, validator, m_field, doc, last, calls>>

AsMarshmallowValidator ==
    \E i \in 1..Len(ValidatorOverrides), mongo_world \in BOOLEAN :
        /\ validator # NoValidator
        /\ out' = [op |-> "as_marshmallow_validator", params |-> ValidatorOverrides[i],
                   outcome |-> as_marshmallow_validator(validator, ValidatorOverrides[i],
                                                        mongo_world)]
        /\ UNCHANGED <<catalog, schema, self, validator, m_field, doc, last, calls>>

NextI18n ==
    \/ SetGettext
    \/ NewValidator
    \/ NewField
    \/ ProjectField
    \/ ReadValidatorError
    \/ ReadFieldError
    \/ ReadProjectedError
    \/ AsMarshmallowValidator

SpecI18n == InitI18n /\ [][NextI18n]_vars

----------------------------------------------------------------------------
(* Claims on messages and validators *)

StoredMessages ==
    (IF validator = NoValidator THEN {} ELSE {validator._error})
    \cup {self.error_messages.items[k] : k \in DOMAIN self.error_messages.items}
    \cup (IF m_field.ret = "field"
          THEN {m_field.error_messages.items[k] : k \in DOMAIN m_field.error_messages.items}
          ELSE {})

\* C5: a message read from a validator, a field or a projected field is the
\* translation of the template it was constructed with under the catalog
\* active at the read, whatever catalog was active at construction, and the
\* stored templates stay untranslated.
C5_LazyTranslation ==
    /\ out.op = "read" =>
        out.value = Translate(out.cat, Raw(out.stored.tpl))
    /\ \A m \in StoredMessages : m.lang = "raw"

\* a validator constructed under one catalog had its message read under
\* another, and the message came back in the language of the second
C5_Witness ==
    /\ out.op = "read"
    /\ out.src = "validator"
    /\ out.built = "fr"
    /\ out.cat = "de"
    /\ out.value.lang = "de"

\* C7 as stated: as_marshmallow_validator returns a validator of the
\* validator's pure-validation ancestor class; it never raises and never
\* returns None.
C7_ValidatorProjected ==
    out.op = "as_marshmallow_validator" =>
        /\ out.outcome.kind = "return"
        /\ out.outcome.ret = "validator"
        /\ out.outcome.cls \in {"ma_validate.Range", "ma_validate.Length",
                                "ma_validate.Validator"}

----------------------------------------------------------------------------
(* BaseDataObject *)

\* BaseDataObject itself and a concrete document type that overrides the
\* abstract operations
DataObjectClasses == {"BaseDataObject", "Document"}

Attributes == {"x", "y"}
StorageDocs == [Attributes -> {missing, "v1", "v2"}]

Raise(exc) == [kind |-> "raise", exc |-> exc]
Return(ret) == [kind |-> "return", ret |-> ret]

\* cls(): a new, empty instance; whether a new document counts as modified
\* is up to the document type
NewDataObject(cls, modified) ==
    [cls |-> cls, data |-> [a \in Attributes |-> missing], modified |-> modified]

\* Document.from_mongo: in-place hydration, which clears the modification state
Document_from_mongo(d, data) == [d EXCEPT !.data = data, !.modified = FALSE]

\* Document.is_modified
Document_is_modified(d) == d.modified

\* Document.clear_modified
Document_clear_modified(d) == [d EXCEPT !.modified = FALSE]

\* Document.__setattr__ on a field: the mutation marks the document modified
Document_set(d, a, v) == [d EXCEPT !.data[a] = v, !.modified = TRUE]

\* BaseDataObject.is_modified
is_modified(d) ==
    IF d.cls = "BaseDataObject" THEN Raise("NotImplementedError")
    ELSE Return(Document_is_modified(d))

\* BaseDataObject.clear_modified: the outcome and the instance afterwards
clear_modified(d) ==
    IF d.cls = "BaseDataObject" THEN [outcome |-> Raise("NotImplementedError"), self |-> d]
    ELSE [outcome |-> Return(None), self |-> Document_clear_modified(d)]

\* BaseDataObject.from_mongo: `return self(data)` calls the instance, which
\* is not callable; the concrete type overrides it
from_mongo(d, data) ==
    IF d.cls = "BaseDataObject" THEN [outcome |-> Raise("TypeError"), self |-> d]
    ELSE [outcome |-> Return(None), self |-> Document_from_mongo(d, data)]

\* build_from_mongo that returns the new instance without hydrating it
build_unhydrated(fresh, data) == [outcome |-> Return("doc"), self |-> fresh]

\* BaseDataObject.build_from_mongo, with fresh the instance cls() gives
build_from_mongo(fresh, data) ==
    LET r == from_mongo(fresh, data)
    IN  IF r.outcome.kind = "raise" THEN [outcome |-> r.outcome, self |-> fresh]
        ELSE [outcome |-> Return("doc"), self |-> r.self]

InitData ==
    /\ catalog = "none"
    /\ schema = <<>>
    /\ self = NoField
    /\ validator = NoValidator
    /\ m_field = ReturnsNone
    /\ doc = NoDoc
    /\ last = "none"
    /\ calls = <<>>
    /\ out = NoOut

\* cls(): a new document made by the application
New ==
    \E cls \in DataObjectClasses, modified \in BOOLEAN :
        /\ doc' = NewDataObject(cls, modified)
        /\ last' = "new"
        /\ out' = [op |-> "new", outcome |-> Return("doc")]
        /\ UNCHANGED <<catalog, schema, self, validator, m_field, calls>>

BuildFromMongo ==
    \E cls \in DataObjectClasses, modified \in BOOLEAN, data \in StorageDocs :
        LET r == build_from_mongo(NewDataObject(cls, modified), data)
        IN  /\ out' = [op |-> "build_from_mongo", outcome |-> r.outcome]
            /\ IF r.outcome.kind = "return"
               THEN doc' = r.self /\ last' = "hydrated"
               ELSE UNCHANGED <<doc, last>>
            /\ UNCHANGED <<catalog, schema, self, validator, m_field, calls>>

FromMongo ==
    \E data \in StorageDocs :
        LET r == from_mongo(doc, data)
        IN  /\ doc # NoDoc
            /\ out' = [op |-> "from_mongo", outcome |-> r.outcome]
            /\ doc' = r.self
            /\ last' = IF r.outcome.kind = "return" THEN "hydrated" ELSE last
            /\ UNCHANGED <<catalog, schema, self, validator, m_field, calls>>

\* the application assigns an attribute of a document
SetAttribute ==
    \E a \in Attributes, v \in {"v1", "v2"} :
        /\ doc # NoDoc
        /\ doc.cls = "Document"
        /\ doc' = Document_set(doc, a, v)
        /\ last' = IF last = "new" THEN "new" ELSE "mutated"
        /\ out' = [op |-> "set", outcome |-> Return(None)]
        /\ UNCHANGED <<catalog, schema, self, validator, m_field, calls>>

ClearModified ==
    LET r == clear_modified(doc)
    IN  /\ doc # NoDoc
        /\ out' = [op |-> "clear_modified", outcome |-> r.outcome]
        /\ doc' = r.self
        /\ last' = IF r.outcome.kind = "return" THEN "cleared" ELSE last
        /\ UNCHANGED <<catalog, schema, self, validator, m_field, calls>>

IsModified ==
    /\ doc # NoDoc
    /\ out' = [op |-> "is_modified", outcome |-> is_modified(doc)]
    /\ UNCHANGED <<catalog, schema, self, validator, m_field, doc, last, calls>>

NextData ==
    \/ New
    \/ BuildFromMongo
    \/ FromMongo
    \/ SetAttribute
    \/ ClearModified
    \/ IsModified

SpecData == InitData /\ [][NextData]_vars

----------------------------------------------------------------------------
(* Claims on the data object *)

\* C6: a data object just built by build_from_mongo (or hydrated in place)
\* reports is_modified() = FALSE, after a later attribute mutation TRUE, and
\* after clear_modified() FALSE again, in every interleaving of the three.
C6_DirtyTracking ==
    /\ last \in {"hydrated", "cleared"} => is_modified(doc) = Return(FALSE)
    /\ last = "mutated" => is_modified(doc) = Return(TRUE)
    /\ (out.op = "build_from_mongo" /\ out.outcome.kind = "return") =>
        last = "hydrated" /\ ~doc.modified

\* a document built from storage was mutated, then cleared, and asked
C6_Witness ==
    /\ last = "cleared"
    /\ out.op = "is_modified"
    /\ out.outcome = Return(FALSE)
    /\ \E a \in Attributes : doc.data[a] = "v2"

====
